---- MODULE Spec2Model ----
(***************************************************************************)
(* Business Operations Tracker (streamlit_app.py).                         *)
(*                                                                         *)
(* The session's record store st.session_state.df and the three handlers   *)
(* that write it: display_csv_uploader, display_add_update_form and        *)
(* display_existing_updates, executed in that order by main() on every     *)
(* script run.  One action of the model is one script run of main(),       *)
(* triggered by one user interaction (file selected, file removed, form    *)
(* submitted, grid cell edited) or by a pending st.rerun().                *)
(*                                                                         *)
(* An ID string is modelled by its shape: pre says whether it starts with  *)
(* "UPDATE-", t is the shape of what follows ("int": decimal digits,       *)
(* "dec": digits followed by ".5", "txt": anything else) and n its digits. *)
(* [pre |-> TRUE,  t |-> "int", n |-> 7]  is  "UPDATE-7"                   *)
(* [pre |-> FALSE, t |-> "int", n |-> 7]  is  "7"                          *)
(* [pre |-> TRUE,  t |-> "dec", n |-> 7]  is  "UPDATE-7.5"                 *)
(* [pre |-> TRUE,  t |-> "txt", n |-> 0]  is  "UPDATE-abc"                 *)
(***************************************************************************)
EXTENDS Integers, Sequences, FiniteSets

VARIABLES
    df,             \* st.session_state.df: the Store, a sequence of records
    uploaded_file,  \* what st.file_uploader returns: NoFile or the selected CSV
    rerun,          \* TRUE when the last script run ended in st.rerun()
    form,           \* the add_update_form widget values of the last script run
    edit,           \* the cell edits the grid widget held in the last script run
    log,            \* st.error / st.warning / st.success calls of the last script run
    writes,         \* number of assignments to st.session_state.df in the last script run
    before,         \* st.session_state.df when the last script run started
    lastOp,         \* what triggered the last script run
    chain,          \* parity of the number of reruns since the last user interaction
    nOps            \* number of user interactions so far

vars == <<df, uploaded_file, rerun, form, edit, log, writes, before, lastOp, chain, nOps>>

-----------------------------------------------------------------------------
(* Bounds of the model *)

MaxRows == 2

MaxStore == 3

MaxOps == 2

-----------------------------------------------------------------------------
(* ID strings *)

Id(pre, t, n) == [pre |-> pre, t |-> t, n |-> n]

FirstIdNum == 1001

\* f"UPDATE-{new_id_num}"
FormatId(n) == Id(TRUE, "int", n)

\* .str.replace('UPDATE-', ''): what is left of the string; an id without the
\* prefix is left as it is
StrReplace(id) == [t |-> id.t, n |-> id.n]

\* .str.isnumeric(): every character is a digit
IsNumeric(s) == s.t = "int"

NaN == -1

\* pd.to_numeric(..., errors='coerce'), the value doubled so that halves stay
\* integers: "7" -> 7.0, "7.5" -> 7.5, anything else -> NaN
ToNumeric(s) ==
    IF s.t = "int" THEN 2 * s.n
    ELSE IF s.t = "dec" THEN 2 * s.n + 1
    ELSE NaN

\* int(x) of a doubled non-negative value: truncation
IntOf(x2) == x2 \div 2

SetMax(S) == CHOOSE m \in S : \A x \in S : x <= m

Ids(d) == {d[i].ID : i \in 1..Len(d)}

NextAfter_m(last_id_num) == last_id_num

\* new_id_num = last_id_num + 1
NextAfter(last_id_num) == last_id_num + 1

\* lines 117-126: the number of the next id
NextIdNum(d) ==
    IF d = <<>> \/ Cardinality({i \in 1..Len(d) : IsNumeric(StrReplace(d[i].ID))}) = 0
    THEN FirstIdNum
    ELSE LET numeric_ids == {ToNumeric(StrReplace(d[i].ID)) : i \in 1..Len(d)} \ {NaN}
         IN  IF numeric_ids = {} THEN FirstIdNum
             ELSE NextAfter(IntOf(SetMax(numeric_ids)))

-----------------------------------------------------------------------------
(* Records and widget inputs *)

ExpectedColumns == {"ID", "Category", "Update", "Status", "Priority", "Date Logged"}

\* pd.to_datetime(datetime.date.today()): a date later than those of the files
Today == <<2025, 6, 1>>

Rec(id, cat, upd, st, pr, dt) ==
    [ID |-> id, Category |-> cat, Update |-> upd, Status |-> st,
     Priority |-> pr, DateLogged |-> dt]

NoFile == [columns |-> {}, rows |-> <<>>, readable |-> TRUE, none |-> TRUE]

File(cols, rows) == [columns |-> cols, rows |-> rows, readable |-> TRUE, none |-> FALSE]

\* a file pd.read_csv cannot read (no header line)
Unreadable == [columns |-> {}, rows |-> <<>>, readable |-> FALSE, none |-> FALSE]

\* the ids a CSV file of the model may hold
FileIds ==
    { Id(TRUE, "int", 1001), Id(FALSE, "int", 1005),
      Id(TRUE, "dec", 1005), Id(TRUE, "txt", 0) }

\* the rows a CSV file of the model may hold: the Date Logged cell is a
\* date string or a string that is no date
FileRows ==
    { Rec(id, "Imported", "f1", "Completed", "Low", "2024-01-05") : id \in FileIds }
    \cup { Rec(Id(TRUE, "int", 1001), "Imported", "f2", "Completed", "Low", "2024-01-05"),
           Rec(Id(TRUE, "int", 1001), "Imported", "f1", "Completed", "Low", "n/a") }

SeqsUpTo(S, n) == UNION {[1..k -> S] : k \in 0..n}

Files ==
    { File(ExpectedColumns, rows) : rows \in SeqsUpTo(FileRows, MaxRows) }
    \cup { File(ExpectedColumns \ {"Status"}, rows) : rows \in SeqsUpTo(FileRows, 1) }
    \cup { Unreadable }

NoForm ==
    [submitted |-> FALSE, category_selection |-> "Lead Contacted",
     custom_category |-> "", update_description |-> "", priority |-> "Medium"]

Forms ==
    [submitted : {TRUE}, category_selection : {"Lead Contacted", "Custom"},
     custom_category : {"", "Acme", "Custom"}, update_description : {"", "d1"},
     priority : {"High", "Medium"}]

NoEdit == [row |-> 0]

-----------------------------------------------------------------------------
(* display_csv_uploader *)

Result(d, l, r, w) == [df |-> d, log |-> l, rerun |-> r, writes |-> w]

Msg(level, text, n) == [level |-> level, text |-> text, n |-> n]

\* all(col in uploaded_df.columns for col in expected_columns)
HasExpectedColumns(f) == \A col \in ExpectedColumns : col \in f.columns

IsDate(cell) == cell = "2024-01-05"

\* pd.to_datetime of one cell; a cell that is no date has no value (the
\* column's conversion raises before one is used)
ToDatetime(cell) == IF IsDate(cell) THEN <<2024, 1, 5>> ELSE <<0, 0, 0>>

ToDatetimeRaises_m(rows) == FALSE

\* pd.to_datetime(uploaded_df["Date Logged"]) raises when a cell is no date
ToDatetimeRaises(rows) == \E i \in 1..Len(rows) : ~IsDate(rows[i].DateLogged)

\* lines 58-59: astype(str) leaves the strings, to_datetime parses the dates
Parse(rows) == [i \in 1..Len(rows) |-> [rows[i] EXCEPT !.DateLogged = ToDatetime(@)]]

\* uploaded_df[~uploaded_df['ID'].isin(existing_ids)]
SelectNew(uploaded_df, existing_ids) ==
    SelectSeq(uploaded_df, LAMBDA r : r.ID \notin existing_ids)

display_csv_uploader(d, f) ==
    IF f.none THEN Result(d, <<>>, FALSE, 0)
    ELSE IF ~f.readable
    THEN Result(d, <<Msg("error", "processing the file", 0)>>, FALSE, 0)
    ELSE IF ~HasExpectedColumns(f)
    THEN Result(d, <<Msg("error", "missing columns", 0)>>, FALSE, 0)
    ELSE IF ToDatetimeRaises(f.rows)
    THEN Result(d, <<Msg("error", "processing the file", 0)>>, FALSE, 0)
    ELSE LET uploaded_df == Parse(f.rows) IN
         IF d = <<>>
         THEN Result(uploaded_df, <<Msg("success", "loaded", Len(uploaded_df))>>, TRUE, 1)
         ELSE LET existing_ids   == Ids(d)
                  new_tickets_df == SelectNew(uploaded_df, existing_ids)
                  num_new        == Len(new_tickets_df)
                  num_duplicates == Len(uploaded_df) - num_new
              IN  IF num_new > 0
                  THEN Result(d \o new_tickets_df,
                              <<Msg("success", "imported", num_new)>>, TRUE, 1)
                  ELSE Result(d, <<>>, FALSE, 0)

-----------------------------------------------------------------------------
(* display_add_update_form *)

\* custom_category if category_selection == "Custom" and custom_category
\* else category_selection
FinalCategory(fm) ==
    IF fm.category_selection = "Custom" /\ fm.custom_category # ""
    THEN fm.custom_category ELSE fm.category_selection

HasDescription_m(fm) == TRUE

\* the truth value of update_description
HasDescription(fm) == fm.update_description # ""

Concat_m(df_new, d) == d \o df_new

\* pd.concat([df_new, st.session_state.df], ignore_index=True)
Concat(df_new, d) == df_new \o d

display_add_update_form(d, fm) ==
    IF fm.submitted /\ HasDescription(fm)
    THEN IF FinalCategory(fm) = "Custom"
         THEN Result(d, <<Msg("warning", "custom category name", 0)>>, FALSE, 0)
         ELSE LET new_update_id == FormatId(NextIdNum(d))
                  df_new == <<Rec(new_update_id, FinalCategory(fm),
                                  fm.update_description, "Not Started",
                                  fm.priority, Today)>>
              IN  Result(Concat(df_new, d), <<Msg("success", "logged", 0)>>, FALSE, 1)
    ELSE IF fm.submitted
    THEN Result(d, <<Msg("warning", "update description", 0)>>, FALSE, 0)
    ELSE Result(d, <<>>, FALSE, 0)

-----------------------------------------------------------------------------
(* display_existing_updates *)

DisabledColumns_m == {"Category", "Date Logged"}

\* the columns configured with disabled=True
DisabledColumns == {"ID", "Category", "Date Logged"}

Cell(col, old, new) == IF col \in DisabledColumns THEN old ELSE new

\* st.data_editor(df_to_edit, ...): the frame with the user's cell edits of one
\* row applied; a disabled column takes no edit, the number of rows is fixed
DataEditor(d, e) ==
    IF e.row = 0 \/ e.row > Len(d) THEN d
    ELSE [d EXCEPT ![e.row] =
            Rec(Cell("ID", @.ID, e.rec.ID),
                Cell("Category", @.Category, e.rec.Category),
                Cell("Update", @.Update, e.rec.Update),
                Cell("Status", @.Status, e.rec.Status),
                Cell("Priority", @.Priority, e.rec.Priority),
                Cell("Date Logged", @.DateLogged, e.rec.DateLogged))]

Equals_m(a, b) == FALSE

\* st.session_state.df.equals(edited_df)
Equals(a, b) == a = b

display_existing_updates(d, e) ==
    IF d = <<>> THEN Result(d, <<>>, FALSE, 0)
    ELSE LET edited_df == DataEditor(d, e) IN
         IF ~Equals(d, edited_df)
         THEN Result(edited_df, <<>>, TRUE, 1)
         ELSE Result(d, <<>>, FALSE, 0)

\* the records a user may try to type into row i of the grid: any of the
\* editable cells changed, with or without an attempt on the disabled cells
Attempts(d, i) ==
    { Rec(dis[1], dis[2], upd, st, pr, dis[3]) :
        dis \in { <<d[i].ID, d[i].Category, d[i].DateLogged>>,
                  <<Id(TRUE, "txt", 0), d[i].Category, d[i].DateLogged>>,
                  <<Id(TRUE, "int", 1001), "Edited", <<1999, 1, 1>>>> },
        upd \in {d[i].Update, "e1"},
        st  \in {d[i].Status, "In Progress"},
        pr  \in {d[i].Priority, "High"} }

-----------------------------------------------------------------------------
(* main: one script run *)

\* st.rerun() in the uploader ends the run; otherwise the form and then the
\* grid are executed on what the handler before left
main(d, f, fm, e) ==
    LET up == display_csv_uploader(d, f) IN
    IF up.rerun THEN up
    ELSE LET ad == display_add_update_form(up.df, fm)
             ed == display_existing_updates(ad.df, e)
         IN  Result(ed.df, up.log \o ad.log \o ed.log, ed.rerun,
                    up.writes + ad.writes + ed.writes)

Run(op, f, fm, e) ==
    LET r == main(df, f, fm, e) IN
    /\ df' = r.df
    /\ rerun' = r.rerun
    /\ log' = r.log
    /\ writes' = r.writes
    /\ before' = df
    /\ uploaded_file' = f
    /\ form' = fm
    /\ edit' = e
    /\ lastOp' = op
    /\ chain' = IF op = "rerun" THEN 1 - chain ELSE 0

\* initialize_state
Init ==
    /\ df = <<>>
    /\ uploaded_file = NoFile
    /\ rerun = FALSE
    /\ form = NoForm
    /\ edit = NoEdit
    /\ log = <<>>
    /\ writes = 0
    /\ before = <<>>
    /\ lastOp = "init"
    /\ chain = 0
    /\ nOps = 0

UserMay == ~rerun /\ nOps < MaxOps

\* the user selects a CSV file
Upload ==
    /\ UserMay
    /\ \E f \in Files :
        /\ Len(df) + Len(f.rows) <= MaxStore
        /\ Run("upload", f, NoForm, NoEdit)
    /\ nOps' = nOps + 1

\* the user removes the selected file
RemoveFile ==
    /\ UserMay
    /\ ~uploaded_file.none
    /\ Run("remove", NoFile, NoForm, NoEdit)
    /\ nOps' = nOps + 1

\* the user submits the form
Submit ==
    /\ UserMay
    /\ Len(df) < MaxStore
    /\ \E fm \in Forms : Run("submit", uploaded_file, fm, NoEdit)
    /\ nOps' = nOps + 1

\* the user edits cells of one row of the grid
Edit ==
    /\ UserMay
    /\ \E i \in 1..Len(df) : \E rec \in Attempts(df, i) :
        Run("edit", uploaded_file, NoForm, [row |-> i, rec |-> rec])
    /\ nOps' = nOps + 1

\* the script run that a st.rerun() asked for
Rerun ==
    /\ rerun
    /\ Run("rerun", uploaded_file, NoForm, NoEdit)
    /\ UNCHANGED nOps

Next == Upload \/ RemoveFile \/ Submit \/ Edit \/ Rerun

Spec == Init /\ [][Next]_vars

FairSpec == Spec /\ WF_vars(Rerun)

-----------------------------------------------------------------------------
(* What the last script run did *)

Logged(level, text) == \E i \in 1..Len(log) : log[i].level = level /\ log[i].text = text

\* the add-update form appended its record in the last script run
Added == lastOp = "submit" /\ Logged("success", "logged")

\* the selected file cannot be imported: a required column is missing, a
\* Date Logged cell is no date, or the file cannot be read at all
ImportFails(f) ==
    \/ ~f.readable
    \/ ~(ExpectedColumns \subseteq f.columns)
    \/ \E i \in 1..Len(f.rows) : f.rows[i].DateLogged = "n/a"

\* the id has the form UPDATE-<integer>
WellFormed(id) == id.pre /\ id.t = "int"

\* numeric suffixes of the well-formed ids of a store
Suffixes(d) == {d[i].ID.n : i \in {j \in 1..Len(d) : WellFormed(d[j].ID)}}

\* the snapshot the grid handed to the reconciler in the last script run
Snapshot == DataEditor(before, edit)

-----------------------------------------------------------------------------
(* Claims *)

\* C1: no two records of the Store have the same id, in every state reachable
\* by add-update submissions, CSV imports and grid edits.
C1_UniqueIds ==
    \A i, j \in 1..Len(df) : i # j => df[i].ID # df[j].ID

\* the Store after an import of the rows into the non-empty store old: old,
\* then the rows whose id is not in old, in source order
MergedStore(old, rows) ==
    old \o SelectSeq(Parse(rows), LAMBDA r : r.ID \notin Ids(old))

Collisions(old, rows) == Len(SelectSeq(rows, LAMBDA r : r.ID \in Ids(old)))

\* the Store part of C2 alone: size N + (M - K), the old records first and
\* unchanged, then the non-colliding rows in source order
MergeStoreEffect ==
    (lastOp = "upload" /\ before # <<>> /\ ~ImportFails(uploaded_file))
        => /\ df = MergedStore(before, uploaded_file.rows)
           /\ Len(df) = Len(before) + Len(uploaded_file.rows)
                          - Collisions(before, uploaded_file.rows)

\* C2: a CSV import of M rows into a non-empty Store of size N, K of them with
\* an id already present, leaves the old N records followed by the M - K
\* non-colliding rows in source order, and reports exactly K duplicates to the
\* user (also when M - K = 0).
C2_MergeReportsDuplicates ==
    (lastOp = "upload" /\ before # <<>> /\ ~ImportFails(uploaded_file))
        => /\ MergeStoreEffect
           /\ \E i \in 1..Len(log) :
                /\ log[i].text = "duplicates"
                /\ log[i].n = Collisions(before, uploaded_file.rows)

\* C3: a CSV import that fails (missing required column, unparsable Date
\* Logged cell, any other processing failure) signals an error and leaves the
\* Store as it was: no row of the file is absorbed, whatever else the script
\* run does.
C3_FailedImportIsAtomic ==
    (~uploaded_file.none /\ ImportFails(uploaded_file))
        => /\ \E i \in 1..Len(log) : log[i].level = "error"
           /\ lastOp \in {"upload", "rerun"} => df = before /\ writes = 0
           /\ df = main(before, NoFile, form, edit).df

C3_Witness ==
    /\ lastOp = "upload"
    /\ before # <<>>
    /\ uploaded_file.readable
    /\ ExpectedColumns \subseteq uploaded_file.columns
    /\ Len(uploaded_file.rows) = 2
    /\ uploaded_file.rows[1].DateLogged = "2024-01-05"
    /\ uploaded_file.rows[1].ID \notin Ids(before)
    /\ uploaded_file.rows[2].DateLogged = "n/a"
    /\ df = before

C5_OnlyWellFormedIdsCount ==
    Added
        => df[1].ID = FormatId(IF Suffixes(before) = {} THEN FirstIdNum
                               ELSE SetMax(Suffixes(before)) + 1)

\* C6: a snapshot equal to the Store causes no write and no rerun; a snapshot
\* that differs only in the status of one record causes exactly one overwrite
\* (the rerun it asks for writes nothing and asks for no further rerun), after
\* which the Store is the old Store except for that field of that record.
C6_ReconcileOnlyOnChange ==
    /\ (lastOp = "edit" /\ Snapshot = before)
          => writes = 0 /\ ~rerun /\ df = before
    /\ (lastOp = "edit" /\ edit.row \in 1..Len(before)
           /\ edit.rec.Status # before[edit.row].Status
           /\ Snapshot = [before EXCEPT ![edit.row].Status = edit.rec.Status])
          => /\ writes = 1
             /\ rerun
             /\ df = [before EXCEPT ![edit.row].Status = edit.rec.Status]
    /\ (lastOp = "rerun" /\ before # <<>>)
          => writes = 0 /\ ~rerun /\ df = before

C6_Witness ==
    /\ lastOp = "edit"
    /\ Len(before) = 2
    /\ edit.row = 2
    /\ edit.rec.Status = "In Progress"
    /\ before[2].Status = "Completed"
    /\ edit.rec.Update = before[2].Update
    /\ edit.rec.Priority = before[2].Priority
    /\ writes = 1
    /\ df[2].Status = "In Progress"

\* the other case of C6: a snapshot equal to the Store was handed in
C6_SameSnapshotReached ==
    lastOp = "edit" /\ Snapshot = before /\ edit.rec.ID # before[edit.row].ID

\* C7: whatever the edited snapshot, an attempt on id, category or date_logged
\* included, the Store after reconciliation has the same records in the same
\* positions with their previous id, category and date_logged; only update,
\* status and priority can differ.
C7_ImmutableFieldsKept ==
    lastOp = "edit"
        => /\ Len(df) = Len(before)
           /\ \A i \in 1..Len(before) :
                /\ df[i].ID = before[i].ID
                /\ df[i].Category = before[i].Category
                /\ df[i].DateLogged = before[i].DateLogged
                /\ i # edit.row => df[i] = before[i]

C7_Witness ==
    /\ lastOp = "edit"
    /\ edit.rec.ID # before[edit.row].ID
    /\ edit.rec.Category # before[edit.row].Category
    /\ edit.rec.DateLogged # before[edit.row].DateLogged
    /\ df[edit.row].Update # before[edit.row].Update
    /\ df[edit.row].Priority # before[edit.row].Priority
    /\ df[edit.row].ID = before[edit.row].ID

\* a submission with a description and a resolved category
ValidForm(fm) ==
    /\ fm.submitted
    /\ fm.update_description # ""
    /\ fm.category_selection = "Custom" => fm.custom_category \notin {"", "Custom"}

\* C8: a valid add-update submission on a Store S yields |S|+1 records, the
\* new one first with status Not Started, the submitted priority and
\* description and today's date, then S unchanged and in order; from the empty
\* Store the new id is UPDATE-1001.
C8_AddPrepends ==
    (lastOp = "submit" /\ ValidForm(form))
        => /\ Len(df) = Len(before) + 1
           /\ df[1].Status = "Not Started"
           /\ df[1].Priority = form.priority
           /\ df[1].Update = form.update_description
           /\ df[1].DateLogged = Today
           /\ df[1].Category = IF form.category_selection = "Custom"
                               THEN form.custom_category ELSE form.category_selection
           /\ Tail(df) = before
           /\ before = <<>> => df[1].ID = FormatId(FirstIdNum)

C8_Witness ==
    /\ lastOp = "submit"
    /\ ValidForm(form)
    /\ form.category_selection = "Custom"
    /\ form.priority = "High"
    /\ Len(before) = 2
    /\ Len(df) = 3

\* C9: a submission with an empty description, or with category Custom and a
\* blank custom category name, is not performed: the user is warned and the
\* Store (records, order, next id to allocate) is unchanged.
C9_InvalidSubmitChangesNothing ==
    (lastOp = "submit"
        /\ (form.update_description = ""
            \/ (form.category_selection = "Custom" /\ form.custom_category = "")))
        => /\ \E i \in 1..Len(log) : log[i].level = "warning"
           /\ df = before
           /\ writes = 0
           /\ NextIdNum(df) = NextIdNum(before)

C9_Witness ==
    /\ lastOp = "submit"
    /\ form.update_description # ""
    /\ form.category_selection = "Custom"
    /\ form.custom_category = ""
    /\ before # <<>>
    /\ Logged("warning", "custom category name")

\* the other case of C9: a submission without a description
C9_NoDescriptionReached ==
    lastOp = "submit" /\ form.update_description = "" /\ before # <<>>
        /\ form.category_selection # "Custom"

\* C10: with the uploaded file still selected, the chain of reruns an upload
\* starts is finite: a script run is reached that asks for no rerun.
C10_UploadRunsToCompletion == (lastOp = "upload") ~> ~rerun

\* the Store part of C10: running the import of the same file again leaves
\* the Store as the first import left it
ReimportChangesNothing ==
    (lastOp = "rerun" /\ ~uploaded_file.none) => df = before

====
